---- MODULE Spec2Model ----
(***************************************************************************)
(* Album / Asset / ShareLink relational model of dichfoto_server_file,     *)
(* the per-request database session of app/db/session.py, and the          *)
(* Asset.set_variants bulk assignment.                                     *)
(*                                                                         *)
(* A Python value is modelled as a set of at most one element: None is     *)
(* {} and any other value x is {x}.  A dict is a function from its keys to *)
(* Python values.                                                          *)
(***************************************************************************)
EXTENDS Integers, Sequences, FiniteSets, TLC

VARIABLES
    backend,      \* the database DATABASE_URL names: "sqlite" or "postgresql"
    seq,          \* per table, the last value its id sequence gave (postgresql)
    store,        \* the committed rows of albums, assets and share_links
    tx,           \* the rows as the open session's transaction sees them
    pc,           \* where the current request is
    req,          \* the delete-Album unit of work being flushed
    last,         \* the operation of the current or most recent request
    listing,      \* the rows a list operation returned
    opened,       \* sessions get_db opened for the current request
    closed,       \* sessions get_db closed for the current request
    obj,          \* one in-memory Asset object (the fields set_variants sees)
    lastVariants, \* argument of the most recent set_variants call, or None
    repeated,     \* the most recent call repeated the argument of the one before
    cleared,      \* the most recent call set to None a column that held a value
    before        \* obj as it was before the most recent call, kept when repeated

variantVars == <<obj, lastVariants, repeated, cleared, before>>

storeVars ==
    <<backend, seq, store, tx, pc, req, last, listing, opened, closed>>

vars == <<backend, seq, store, tx, pc, req, last, listing, opened, closed,
          obj, lastVariants, repeated, cleared, before>>

----------------------------------------------------------------------------
(* Python values *)

None == {}

Some(x) == {x}

Val(o) == CHOOSE x \in o : TRUE

EmptyDict == <<>>

\* dict.get(k): the value stored under k, None when k is no key of d.
Get(d, k) == IF k \in DOMAIN d THEN d[k] ELSE None

\* Python truth of a value that is None or a dict.
Truthy(v) == v # None /\ DOMAIN Val(v) # {}

\* `v or default` for a value that is None or a dict.
OrElse(v, default) == IF Truthy(v) THEN Val(v) ELSE default

----------------------------------------------------------------------------
(* Asset.set_variants *)

ENCODINGS == {"jpg", "webp", "avif"}

BREAKPOINTS == {480, 960, 1280, 1920}

\* f"{ext}_480", f"{ext}_960", f"{ext}_1280", f"{ext}_1920", tabulated.
FieldNames ==
    [e \in ENCODINGS |-> [b \in BREAKPOINTS |-> e \o "_" \o ToString(b)]]

FieldName(ext, bp) == FieldNames[ext][bp]

VariantFields == {FieldName(e, b) : e \in ENCODINGS, b \in BREAKPOINTS}

\* The columns of Asset that set_variants can see: width, height, the twelve
\* variant columns, and two of the columns it never assigns.
AssetFields == {"width", "height", "filename", "lqip"} \cup VariantFields

\* Asset(filename=...): every nullable column starts as None.
NewAssetObject ==
    [f \in AssetFields |-> IF f = "filename" THEN Some("p.jpg") ELSE None]

\* The loop body as a merge: a breakpoint missing from the mapping keeps the
\* value the column already holds.
SetExtMerging(o, variants, ext) ==
    LET d == OrElse(Get(variants, ext), EmptyDict)
        keep(b) == IF b \in DOMAIN d THEN d[b] ELSE o[FieldName(ext, b)]
    IN  [o EXCEPT ![FieldName(ext, 480)] = keep(480),
                  ![FieldName(ext, 960)] = keep(960),
                  ![FieldName(ext, 1280)] = keep(1280),
                  ![FieldName(ext, 1920)] = keep(1920)]

\* The loop body with a fallback: a breakpoint missing from the mapping takes
\* the stored variant of the next larger breakpoint.
SetExtFallback(o, variants, ext) ==
    LET d == OrElse(Get(variants, ext), EmptyDict)
        pick(b, larger) == IF b \in DOMAIN d THEN d[b]
                           ELSE o[FieldName(ext, larger)]
    IN  [o EXCEPT ![FieldName(ext, 480)] = pick(480, 960),
                  ![FieldName(ext, 960)] = pick(960, 1280),
                  ![FieldName(ext, 1280)] = pick(1280, 1920),
                  ![FieldName(ext, 1920)] = Get(d, 1920)]

\* The body of the loop `for ext in ("jpg", "webp", "avif")`.
SetExt(o, variants, ext) ==
    LET d == OrElse(Get(variants, ext), EmptyDict)
    IN  [o EXCEPT ![FieldName(ext, 480)] = Get(d, 480),
                  ![FieldName(ext, 960)] = Get(d, 960),
                  ![FieldName(ext, 1280)] = Get(d, 1280),
                  ![FieldName(ext, 1920)] = Get(d, 1920)]

set_variants(o, variants) ==
    LET o0 == [o EXCEPT !.width = Get(variants, "width"),
                        !.height = Get(variants, "height")]
        o1 == SetExt(o0, variants, "jpg")
        o2 == SetExt(o1, variants, "webp")
    IN  SetExt(o2, variants, "avif")

----------------------------------------------------------------------------
(* The mappings handed to set_variants *)

MaxEntries == 1

Paths == {"a", "b"}

Widths == {800}

Heights == {600}

\* How an encoding without any breakpoint entry appears in the mapping: its
\* key is absent (get returns None) or it maps to an empty dict.
Shapes == {"absent", "empty"}

EntrySets ==
    {E \in SUBSET (ENCODINGS \X BREAKPOINTS) : Cardinality(E) <= MaxEntries}

\* The mapping with width w, height h (None: key absent), the breakpoint
\* entries p (a function from <<encoding, breakpoint>> to a path), and every
\* encoding without an entry appearing as `shape` says.
MkVariants(w, h, p, shape) ==
    LET bps(e) == {b \in BREAKPOINTS : <<e, b>> \in DOMAIN p}
        encs == {e \in ENCODINGS : bps(e) # {} \/ shape # "absent"}
        keys == (IF w = None THEN {} ELSE {"width"})
                    \cup (IF h = None THEN {} ELSE {"height"}) \cup encs
    IN  [k \in keys |->
            CASE k = "width" -> w
              [] k = "height" -> h
              [] OTHER ->
                    IF bps(k) = {}
                    THEN Some(EmptyDict)
                    ELSE Some([b \in bps(k) |-> Some(p[<<k, b>>])])]

VariantInputs ==
    UNION {{MkVariants(w, h, p, shape) :
                w \in {None} \cup {Some(x) : x \in Widths},
                h \in {None} \cup {Some(x) : x \in Heights},
                p \in [E -> Paths], shape \in Shapes} : E \in EntrySets}

----------------------------------------------------------------------------
(* The database: tables, constraints and ON DELETE actions *)

MaxAlbumId == 2

MaxAssetId == 2

MaxShareId == 2

\* DATABASE_URL: the default is a SQLite file, any other URL is taken as is.
Backends == {"sqlite", "postgresql"}

Tables == {"albums", "assets", "share_links"}

EmptyDb == [t \in Tables |-> {}]

Ids(rows) == {r.id : r \in rows}

Max(S) == CHOOSE m \in S : \A x \in S : x <= m

\* create_engine(DATABASE_URL, connect_args, pool_pre_ping) and nothing else:
\* no connect listener issues PRAGMA foreign_keys=ON, so a SQLite connection
\* neither checks a REFERENCES clause nor runs its ON DELETE action.
ForeignKeysOn == backend # "sqlite"

\* Column(Integer, primary_key=True): SQLite gives the largest id in the table
\* plus one, the other databases the next value of the table's sequence.
NewId(table, rows) ==
    IF backend = "sqlite" THEN Max({0} \cup Ids(rows)) + 1 ELSE seq[table] + 1

\* A sequence value once given is not given again, whatever the statement does.
SeqAfterInsert(table) ==
    IF backend = "sqlite" THEN seq ELSE [seq EXCEPT ![table] = @ + 1]

Ok(d) == [err |-> None, db |-> d]

\* The statement violates the named constraint: sqlalchemy.exc.IntegrityError.
Rejected(constraint, d) == [err |-> Some(constraint), db |-> d]

\* Does the nullable reference ref name a row of `rows`, or nothing at all?
RefHolds(ref, rows) == ref = None \/ Val(ref) \in Ids(rows)

\* INSERT INTO albums: title is nullable=False.
InsertAlbum(d, id, title) ==
    IF title = None THEN Rejected("NOT NULL albums.title", d)
    ELSE Ok([d EXCEPT !.albums =
                @ \cup {[id |-> id, title |-> title, cover_asset_id |-> None]}])

\* INSERT INTO assets: filename and original_name are nullable=False; album_id
\* is ForeignKey("albums.id") and, given no nullable=False, nullable.
InsertAsset(d, id, a) ==
    IF a.filename = None THEN Rejected("NOT NULL assets.filename", d)
    ELSE IF a.original_name = None
    THEN Rejected("NOT NULL assets.original_name", d)
    ELSE IF ForeignKeysOn /\ ~RefHolds(a.album_id, d.albums)
    THEN Rejected("FOREIGN KEY assets.album_id", d)
    ELSE Ok([d EXCEPT !.assets =
                @ \cup {[id |-> id, album_id |-> a.album_id,
                         sort_order |-> a.sort_order, filename |-> a.filename,
                         original_name |-> a.original_name]}])

\* The unique index left out.
SlugNeverTaken(rows, slug) == FALSE

\* unique=True on share_links.slug: a unique index holds any number of NULLs.
SlugTaken(rows, slug) == slug # None /\ \E s \in rows : s.slug = slug

\* INSERT INTO share_links: slug is unique=True and nullable, album_id is
\* ForeignKey("albums.id") and nullable.
InsertShare(d, id, sh) ==
    IF SlugTaken(d.share_links, sh.slug)
    THEN Rejected("UNIQUE share_links.slug", d)
    ELSE IF ForeignKeysOn /\ ~RefHolds(sh.album_id, d.albums)
    THEN Rejected("FOREIGN KEY share_links.album_id", d)
    ELSE Ok([d EXCEPT !.share_links =
                @ \cup {[id |-> id, album_id |-> sh.album_id,
                         slug |-> sh.slug]}])

\* DELETE FROM assets WHERE id IN ids.  albums.cover_asset_id is
\* ForeignKey("assets.id", ondelete="SET NULL").
DeleteAssets(d, ids) ==
    [d EXCEPT
        !.assets = {a \in @ : a.id \notin ids},
        !.albums =
            IF ForeignKeysOn
            THEN {IF al.cover_asset_id # None /\ Val(al.cover_asset_id) \in ids
                  THEN [al EXCEPT !.cover_asset_id = None] ELSE al : al \in @}
            ELSE @]

\* DELETE FROM share_links WHERE id IN ids.
DeleteShares(d, ids) ==
    [d EXCEPT !.share_links = {s \in @ : s.id \notin ids}]

AssetsOf(d, album) == {a \in d.assets : a.album_id = Some(album)}

SharesOf(d, album) == {s \in d.share_links : s.album_id = Some(album)}

\* DELETE FROM albums WHERE id = album.  assets.album_id and
\* share_links.album_id are ForeignKey("albums.id", ondelete="CASCADE").
DeleteAlbumRow(d, album) ==
    LET gone == [d EXCEPT !.albums = {al \in @ : al.id # album}]
    IN  IF ForeignKeysOn
        THEN DeleteShares(DeleteAssets(gone, Ids(AssetsOf(gone, album))),
                          Ids(SharesOf(gone, album)))
        ELSE gone

\* UPDATE albums SET cover_asset_id = cover WHERE id = album.
UpdateCover(d, album, cover) ==
    IF ForeignKeysOn /\ ~RefHolds(cover, d.assets)
    THEN Rejected("FOREIGN KEY albums.cover_asset_id", d)
    ELSE Ok([d EXCEPT !.albums =
                {IF al.id = album THEN [al EXCEPT !.cover_asset_id = cover]
                 ELSE al : al \in @}])

----------------------------------------------------------------------------
(* Queries *)

Orderings(S) ==
    {s \in [1..Cardinality(S) -> S] : \A i, j \in DOMAIN s : s[i] = s[j] => i = j}

\* ORDER BY x: SQLite puts NULL first, PostgreSQL last.
NullsFirst == backend = "sqlite"

SortsNoLater(x, y) ==
    IF x = None THEN NullsFirst \/ y = None
    ELSE IF y = None THEN ~NullsFirst
    ELSE Val(x) <= Val(y)

\* The rows in the order of their ids, which is the order they were inserted.
OrderedById(s) == \A i, j \in DOMAIN s : i < j => s[i].id < s[j].id

\* order_by="Asset.sort_order" on Album.assets.
OrderedBySortOrder(s) ==
    \A i, j \in DOMAIN s : i < j => SortsNoLater(s[i].sort_order, s[j].sort_order)

\* album.assets: SELECT ... FROM assets WHERE album_id = :id ORDER BY
\* assets.sort_order, rows that compare equal coming in any order.
AlbumAssets(d, album) ==
    {s \in Orderings(AssetsOf(d, album)) : OrderedBySortOrder(s)}

----------------------------------------------------------------------------
(* Requests: get_db opens a session, the handler works in it, get_db closes it *)

NoOp ==
    [op |-> "none", id |-> None, args |-> <<>>, outcome |-> "none",
     detail |-> ""]

Op(op, id, args, outcome) ==
    [op |-> op, id |-> id, args |-> args, outcome |-> outcome, detail |-> ""]

NoReq == [album |-> 0, assets |-> FALSE, shares |-> FALSE]

\* get_db: db = SessionLocal(); the handler runs at the yield.
OpenSession ==
    /\ pc = "idle"
    /\ pc' = "handler"
    /\ tx' = Some(store)
    /\ opened' = 1
    /\ closed' = 0
    /\ last' = NoOp
    /\ listing' = <<>>
    /\ UNCHANGED <<backend, seq, store, req>>
    /\ UNCHANGED variantVars

\* get_db closes the session only when the handler returns.
ClosesOnReturnOnly(raised) == ~raised

\* get_db: try: yield db / finally: db.close().  The finally clause runs
\* however the handler was left.
ClosesSession(raised) == TRUE

Raised(outcome) == outcome \in {"IntegrityError", "OperationalError"}

\* The handler is left; db.close() rolls back what was not committed and
\* gives the connection back.
CloseSession ==
    /\ pc = "exit"
    /\ pc' = "idle"
    /\ IF ClosesSession(Raised(last.outcome))
       THEN closed' = closed + 1 /\ tx' = None
       ELSE UNCHANGED <<closed, tx>>
    /\ last' = [NoOp EXCEPT !.outcome = last.outcome]
    /\ listing' = <<>>
    /\ UNCHANGED <<backend, seq, store, req, opened>>
    /\ UNCHANGED variantVars

\* A handler without Depends(get_db): GET /ping, GET /likes/health.
Ping ==
    /\ pc = "idle"
    /\ opened' = 0
    /\ closed' = 0
    /\ last' = NoOp
    /\ UNCHANGED <<backend, seq, store, tx, pc, req, listing>>
    /\ UNCHANGED variantVars

\* db.add(row) or db.delete(row), then db.commit(): the flush sends the
\* INSERT, UPDATE or DELETE, and the COMMIT follows.  A rejected statement
\* raises IntegrityError out of the handler, and nothing is committed.
Write(op, id, args, r) ==
    /\ IF r.err = None
       THEN /\ pc' = "commit"
            /\ tx' = Some(r.db)
            /\ last' = Op(op, id, args, "pending")
       ELSE /\ pc' = "exit"
            /\ tx' = tx
            /\ last' = [Op(op, None, args, "IntegrityError")
                            EXCEPT !.detail = Val(r.err)]
    /\ UNCHANGED <<backend, store, req, listing, opened, closed>>
    /\ UNCHANGED variantVars

\* create_album(title): album = Album(title=title); db.add(album);
\* db.commit(); db.refresh(album).
CreateAlbum(title, maxId) ==
    /\ pc = "handler"
    /\ LET d == Val(tx)
           id == NewId("albums", d.albums)
       IN  /\ id <= maxId
           /\ seq' = SeqAfterInsert("albums")
           /\ Write("create_album", Some(id), [title |-> title],
                    InsertAlbum(d, id, title))

\* db.add(Asset(...)); db.commit().
CreateAsset(a, maxId) ==
    /\ pc = "handler"
    /\ LET d == Val(tx)
           id == NewId("assets", d.assets)
       IN  /\ id <= maxId
           /\ seq' = SeqAfterInsert("assets")
           /\ Write("create_asset", Some(id), a, InsertAsset(d, id, a))

\* db.add(ShareLink(...)); db.commit().
CreateShare(sh) ==
    /\ pc = "handler"
    /\ LET d == Val(tx)
           id == NewId("share_links", d.share_links)
       IN  /\ id <= MaxShareId
           /\ seq' = SeqAfterInsert("share_links")
           /\ Write("create_share", Some(id), sh, InsertShare(d, id, sh))

\* db.delete(asset); db.commit().  No relationship of Asset leads to the
\* albums whose cover it is, so the session itself touches no album.
DeleteAsset(id) ==
    /\ pc = "handler"
    /\ id \in Ids(Val(tx).assets)
    /\ Write("delete_asset", Some(id), <<>>, Ok(DeleteAssets(Val(tx), {id})))
    /\ UNCHANGED seq

\* db.delete(share); db.commit().
DeleteShare(id) ==
    /\ pc = "handler"
    /\ id \in Ids(Val(tx).share_links)
    /\ Write("delete_share", Some(id), <<>>, Ok(DeleteShares(Val(tx), {id})))
    /\ UNCHANGED seq

\* album.cover_asset_id = cover; db.commit().
SetCover(album, cover) ==
    /\ pc = "handler"
    /\ album \in Ids(Val(tx).albums)
    /\ Write("set_cover", Some(album), [cover_asset_id |-> cover],
             UpdateCover(Val(tx), album, cover))
    /\ UNCHANGED seq

\* list_albums: return db.query(Album).all().
ListAlbums ==
    /\ pc = "handler"
    /\ pc' = "exit"
    /\ listing' \in Orderings(Val(tx).albums)
    /\ last' = Op("list_albums", None, <<>>, "returned")
    /\ UNCHANGED <<backend, seq, store, tx, req, opened, closed>>
    /\ UNCHANGED variantVars

\* return album.assets
ListAssets(album) ==
    /\ pc = "handler"
    /\ album \in Ids(Val(tx).albums)
    /\ pc' = "exit"
    /\ listing' \in AlbumAssets(Val(tx), album)
    /\ last' = Op("list_assets", Some(album), <<>>, "returned")
    /\ UNCHANGED <<backend, seq, store, tx, req, opened, closed>>
    /\ UNCHANGED variantVars

----------------------------------------------------------------------------
(* Deleting an Album: db.delete(album); db.commit() *)

\* db.delete(album).  Album.assets and Album.shares are cascade="all,
\* delete-orphan" with passive_deletes=True: the session deletes the children
\* of a collection it has loaded and leaves those of an unloaded collection
\* to the database's ON DELETE CASCADE.
DeleteAlbum(album, assetsLoaded, sharesLoaded) ==
    /\ pc = "handler"
    /\ album \in Ids(Val(tx).albums)
    /\ pc' = "flush_assets"
    /\ req' = [album |-> album, assets |-> assetsLoaded, shares |-> sharesLoaded]
    /\ last' = Op("delete_album", Some(album), <<>>, "pending")
    /\ UNCHANGED <<backend, seq, store, tx, listing, opened, closed>>
    /\ UNCHANGED variantVars

\* The flush: DELETE FROM assets for the loaded children.
FlushAssets ==
    /\ pc = "flush_assets"
    /\ pc' = "flush_shares"
    /\ tx' = IF req.assets
             THEN Some(DeleteAssets(Val(tx), Ids(AssetsOf(Val(tx), req.album))))
             ELSE tx
    /\ UNCHANGED <<backend, seq, store, req, last, listing, opened, closed>>
    /\ UNCHANGED variantVars

\* The flush: DELETE FROM share_links for the loaded children.
FlushShares ==
    /\ pc = "flush_shares"
    /\ pc' = "flush_album"
    /\ tx' = IF req.shares
             THEN Some(DeleteShares(Val(tx), Ids(SharesOf(Val(tx), req.album))))
             ELSE tx
    /\ UNCHANGED <<backend, seq, store, req, last, listing, opened, closed>>
    /\ UNCHANGED variantVars

\* The flush: DELETE FROM albums.
FlushAlbum ==
    /\ pc = "flush_album"
    /\ pc' = "commit"
    /\ tx' = Some(DeleteAlbumRow(Val(tx), req.album))
    /\ UNCHANGED <<backend, seq, store, req, last, listing, opened, closed>>
    /\ UNCHANGED variantVars

\* COMMIT: what the transaction did becomes the committed state, all at once.
\* create_album goes on to db.refresh(album).
Commit ==
    /\ pc = "commit"
    /\ pc' = IF last.op = "create_album" THEN "refresh" ELSE "exit"
    /\ store' = Val(tx)
    /\ last' = [last EXCEPT !.outcome = "committed"]
    /\ req' = NoReq
    /\ UNCHANGED <<backend, seq, tx, listing, opened, closed>>
    /\ UNCHANGED variantVars

\* db.refresh(album); return album.
Refresh ==
    /\ pc = "refresh"
    /\ pc' = "exit"
    /\ UNCHANGED <<backend, seq, store, tx, req, last, listing, opened, closed>>
    /\ UNCHANGED variantVars

\* A statement of the handler, of the flush, the COMMIT or the refresh fails
\* (the database is locked, the connection is lost): the exception leaves the
\* handler.
Fail ==
    /\ pc \in {"handler", "flush_assets", "flush_shares", "flush_album",
               "commit", "refresh"}
    /\ pc' = "exit"
    /\ last' = [last EXCEPT !.outcome = "OperationalError"]
    /\ req' = NoReq
    /\ UNCHANGED <<backend, seq, store, tx, listing, opened, closed>>
    /\ UNCHANGED variantVars

----------------------------------------------------------------------------
(* Inputs *)

Titles == {None, Some("Trip")}

Filenames == {None, Some("p.jpg")}

OriginalNames == {None, Some("orig.jpg")}

Slugs == {None, Some("s1"), Some("s2")}

AlbumRefs == {None} \cup {Some(i) : i \in 1..MaxAlbumId}

AssetRefs == {None} \cup {Some(i) : i \in 1..MaxAssetId}

MaxSortOrder == 3

SortOrders == {None} \cup {Some(i) : i \in 1..MaxSortOrder}

AssetInputs(sortOrders) ==
    [album_id : AlbumRefs, sort_order : sortOrders, filename : Filenames,
     original_name : OriginalNames]

ShareInputs == [album_id : AlbumRefs, slug : Slugs]

InitStore ==
    /\ backend \in Backends
    /\ seq = [t \in Tables |-> 0]
    /\ store = EmptyDb
    /\ tx = None
    /\ pc = "idle"
    /\ req = NoReq
    /\ last = NoOp
    /\ listing = <<>>
    /\ opened = 0
    /\ closed = 0

----------------------------------------------------------------------------
(* The pipeline delivers a result to set_variants *)

SetVariants(v) ==
    /\ obj' = set_variants(obj, v)
    /\ lastVariants' = Some(v)
    /\ repeated' = (lastVariants = Some(v))
    /\ cleared' = \E f \in AssetFields : obj[f] # None /\ obj'[f] = None
    /\ before' = IF lastVariants = Some(v) THEN Some(obj) ELSE None
    /\ UNCHANGED storeVars

CallSetVariants == \E v \in VariantInputs : SetVariants(v)

InitObject ==
    /\ obj = NewAssetObject
    /\ lastVariants = None
    /\ repeated = FALSE
    /\ cleared = FALSE
    /\ before = None

InitVariants == InitStore /\ backend = "sqlite" /\ InitObject

NextVariants == CallSetVariants

SpecVariants == InitVariants /\ [][NextVariants]_vars

----------------------------------------------------------------------------
(* The store under every operation *)

Init == InitStore /\ InitObject

Next ==
    \/ OpenSession
    \/ CloseSession
    \/ Ping
    \/ \E t \in Titles : CreateAlbum(t, MaxAlbumId)
    \/ \E a \in AssetInputs({None}) : CreateAsset(a, MaxAssetId)
    \/ \E sh \in ShareInputs : CreateShare(sh)
    \/ \E id \in 1..MaxAssetId : DeleteAsset(id)
    \/ \E id \in 1..MaxShareId : DeleteShare(id)
    \/ \E al \in 1..MaxAlbumId, c \in AssetRefs : SetCover(al, c)
    \/ ListAlbums
    \/ \E al \in 1..MaxAlbumId : ListAssets(al)
    \/ \E al \in 1..MaxAlbumId, la, ls \in BOOLEAN : DeleteAlbum(al, la, ls)
    \/ FlushAssets
    \/ FlushShares
    \/ FlushAlbum
    \/ Commit
    \/ Refresh
    \/ Fail

Spec == Init /\ [][Next]_vars

----------------------------------------------------------------------------
(* The application as the routers define it: GET /ping, GET /albums,     *)
(* POST /admin/albums                                                     *)

\* create_album(title: str, ...): the title is a required string.
RequestTitles == {Some("Trip"), Some("Rome")}

NextApp ==
    \/ OpenSession
    \/ CloseSession
    \/ Ping
    \/ \E t \in RequestTitles : CreateAlbum(t, MaxAlbumId)
    \/ ListAlbums
    \/ Commit
    \/ Refresh
    \/ Fail

SpecApp == Init /\ [][NextApp]_vars

----------------------------------------------------------------------------
(* Albums and their share links *)

NextShares ==
    \/ OpenSession
    \/ CloseSession
    \/ CreateAlbum(Some("Trip"), MaxAlbumId)
    \/ \E sh \in ShareInputs : CreateShare(sh)
    \/ \E id \in 1..MaxShareId : DeleteShare(id)
    \/ \E al \in 1..MaxAlbumId, ls \in BOOLEAN : DeleteAlbum(al, FALSE, ls)
    \/ FlushAssets
    \/ FlushShares
    \/ FlushAlbum
    \/ Commit
    \/ Refresh
    \/ Fail

SpecShares == Init /\ [][NextShares]_vars

----------------------------------------------------------------------------
(* One album and its assets, listed *)

MaxListedId == 3

ListedInputs ==
    [album_id : {Some(1)}, sort_order : SortOrders,
     filename : {Some("p.jpg")}, original_name : {Some("orig.jpg")}]

NextList ==
    \/ OpenSession
    \/ CloseSession
    \/ CreateAlbum(Some("Trip"), 1)
    \/ \E a \in ListedInputs : CreateAsset(a, MaxListedId)
    \/ \E id \in 1..MaxListedId : DeleteAsset(id)
    \/ ListAssets(1)
    \/ Commit
    \/ Refresh

SpecList == Init /\ [][NextList]_vars

----------------------------------------------------------------------------
(* Properties of set_variants *)

\* What the mapping v supplies for the column of encoding e at breakpoint b.
Supplied(v, e, b) ==
    IF e \in DOMAIN v /\ v[e] # None /\ b \in DOMAIN Val(v[e])
    THEN Val(v[e])[b]
    ELSE None

\* C2: set_variants is a full overwrite.  After a call with the mapping v the
\* asset's width and height are v's (None when absent) and each of the twelve
\* columns <enc>_<bp> holds v[enc][bp] when present and None otherwise, so no
\* value of an earlier call survives.
C2_FullOverwrite ==
    lastVariants # None =>
        LET v == Val(lastVariants)
        IN  /\ obj.width = (IF "width" \in DOMAIN v THEN v.width ELSE None)
            /\ obj.height = (IF "height" \in DOMAIN v THEN v.height ELSE None)
            /\ obj.jpg_480 = Supplied(v, "jpg", 480)
            /\ obj.jpg_960 = Supplied(v, "jpg", 960)
            /\ obj.jpg_1280 = Supplied(v, "jpg", 1280)
            /\ obj.jpg_1920 = Supplied(v, "jpg", 1920)
            /\ obj.webp_480 = Supplied(v, "webp", 480)
            /\ obj.webp_960 = Supplied(v, "webp", 960)
            /\ obj.webp_1280 = Supplied(v, "webp", 1280)
            /\ obj.webp_1920 = Supplied(v, "webp", 1920)
            /\ obj.avif_480 = Supplied(v, "avif", 480)
            /\ obj.avif_960 = Supplied(v, "avif", 960)
            /\ obj.avif_1280 = Supplied(v, "avif", 1280)
            /\ obj.avif_1920 = Supplied(v, "avif", 1920)

\* The spec's example: {webp: {960: "b"}} was applied to an asset that held a
\* value in another column, and that column is now None.
C2_Witness ==
    /\ lastVariants = Some([webp |-> Some(960 :> Some("b"))])
    /\ cleared
    /\ obj.webp_960 = Some("b")
    /\ obj.jpg_480 = None

\* C3: set_variants is idempotent.  When a call repeats the mapping of the call
\* before it, every field of the asset has the value the first call left.
C3_Idempotent == repeated => before = Some(obj)

\* Two calls in a row with the same non-empty mapping.
C3_Witness ==
    /\ repeated
    /\ \E f \in VariantFields : obj[f] # None
    /\ obj.width # None

----------------------------------------------------------------------------
(* Properties of the store *)

\* The step in which the handler runs the operation op.
Ran(op) == pc = "handler" /\ last'.op = op

\* The step rejects the statement: IntegrityError leaves the handler and the
\* transaction holds nothing to commit.
RejectedStep ==
    /\ pc' = "exit"
    /\ last'.outcome = "IntegrityError"
    /\ last'.detail # ""
    /\ tx' = tx
    /\ store' = store

\* The step in which the request of operation op commits.
Committed(op) == pc = "commit" /\ last.op = op /\ last'.outcome = "committed"

\* The album the delete-Album request is about.
Deleted == Val(last.id)

\* C1: once the delete-Album(A) operation has completed, no Asset row and no
\* ShareLink row has album_id = A.id.
C1_DeleteAlbumLeavesNoDependents ==
    (pc = "exit" /\ last.op = "delete_album" /\ last.outcome = "committed") =>
        /\ Deleted \notin Ids(store.albums)
        /\ AssetsOf(store, Deleted) = {}
        /\ SharesOf(store, Deleted) = {}

\* C4: deleting an Asset that is some Album's cover succeeds (no constraint
\* rejects it), leaves that Album in place with cover_asset_id None, and so
\* leaves no cover_asset_id that names the deleted Asset.
C4_DeleteCoverAssetNullsCover ==
    [][/\ Ran("delete_asset") => pc' = "commit"
       /\ Committed("delete_asset") =>
            /\ \A al \in store.albums :
                  al.cover_asset_id = last.id =>
                      [al EXCEPT !.cover_asset_id = None] \in store'.albums
            /\ \A al \in store'.albums : al.cover_asset_id # last.id]_vars

\* C5: deleting an Album is atomic with its cascade.  While a delete-Album
\* request runs, the committed rows either stay as they were or lose the
\* Album, all its Assets and all its ShareLinks in one step.
C5_DeleteAlbumAtomic ==
    [][last.op = "delete_album" =>
        \/ store' = store
        \/ /\ Deleted \notin Ids(store'.albums)
           /\ AssetsOf(store', Deleted) = {}
           /\ SharesOf(store', Deleted) = {}]_vars

\* C7: creating an Asset whose album_id names no existing Album is rejected
\* and adds no Asset row, so every Asset belongs to an existing Album.
C7_AssetNeedsExistingAlbum ==
    [][/\ (Ran("create_asset") /\ last'.args.album_id # None
            /\ Val(last'.args.album_id) \notin Ids(store.albums)) =>
                RejectedStep
       /\ \A a \in store'.assets :
             a.album_id # None /\ Val(a.album_id) \in Ids(store'.albums)]_vars

\* C8: a write that omits a required field (an Album without title, an Asset
\* without album_id or without filename) is rejected with an integrity error
\* that names the constraint, and leaves the store unchanged.
C8_RequiredFieldsRejected ==
    [][(\/ Ran("create_album") /\ last'.args.title = None
        \/ Ran("create_asset") /\ last'.args.album_id = None
        \/ Ran("create_asset") /\ last'.args.filename = None) =>
            RejectedStep]_vars

----------------------------------------------------------------------------
(* Properties of share links *)

\* C6 as stated: no two ShareLink rows have the same slug.
C6_NoTwoRowsShareSlug ==
    \A s1, s2 \in store.share_links : s1.slug = s2.slug => s1 = s2

\* C6, amended: no two ShareLink rows have the same slug other than None, and
\* an insert whose slug is not None and equals that of an existing ShareLink
\* is rejected and leaves the ShareLinks unchanged; ShareLinks without a slug
\* coexist.
C6_NoTwoRowsShareNonNullSlug ==
    /\ \A s1, s2 \in store.share_links :
          (s1.slug # None /\ s1.slug = s2.slug) => s1 = s2
    /\ (last.op = "create_share" /\ last.args.slug # None
            /\ \E s \in Val(tx).share_links :
                  s.slug = last.args.slug /\ Some(s.id) # last.id) =>
          /\ last.outcome = "IntegrityError"
          /\ last.detail = "UNIQUE share_links.slug"
          /\ store.share_links = Val(tx).share_links

\* An insert was rejected for reusing the slug of a committed ShareLink.
C6_Witness ==
    /\ pc = "exit"
    /\ last.op = "create_share"
    /\ last.outcome = "IntegrityError"
    /\ last.detail = "UNIQUE share_links.slug"
    /\ last.args.slug # None
    /\ \E s \in store.share_links : s.slug = last.args.slug

----------------------------------------------------------------------------
(* Properties of the request's session *)

\* C9: the session of a request is acquired when the request starts and
\* released exactly once when it ends, however the handler is left: while
\* the request runs one session is open, and once it has ended every session
\* opened for it is closed and no transaction is left pending.
C9_SessionReleasedOnce ==
    /\ pc # "idle" => (opened = 1 /\ closed = 0 /\ tx # None)
    /\ pc = "idle" => (closed = opened /\ tx = None)

\* A request whose handler raised has ended with its session closed.
C9_Witness ==
    /\ pc = "idle"
    /\ last.outcome = "OperationalError"
    /\ opened = 1
    /\ closed = 1
    /\ tx = None
    /\ store.albums # {}

----------------------------------------------------------------------------
(* Properties of the listing *)

\* C10: listing the Assets of an Album returns every Asset of the Album, those
\* without sort_order too, and the sort_order values appear in ascending
\* order whatever the order of insertion.
C10_ListedInSortOrder ==
    (pc = "exit" /\ last.op = "list_assets") =>
        /\ {listing[i] : i \in DOMAIN listing} = AssetsOf(store, Val(last.id))
        /\ Len(listing) = Cardinality(AssetsOf(store, Val(last.id)))
        /\ \A i, j \in DOMAIN listing :
              (i < j /\ listing[i].sort_order # None
                    /\ listing[j].sort_order # None) =>
                  Val(listing[i].sort_order) <= Val(listing[j].sort_order)

\* The spec's example: Assets inserted with sort_order 3, 1, 2 are listed
\* 1, 2, 3.
C10_Witness ==
    /\ pc = "exit"
    /\ last.op = "list_assets"
    /\ Len(listing) = 3
    /\ [i \in 1..3 |-> listing[i].id] = <<2, 3, 1>>
    /\ [i \in 1..3 |-> listing[i].sort_order] = <<Some(1), Some(2), Some(3)>>

\* A listing that holds an Asset without sort_order next to ordered ones.
C10_WitnessNull ==
    /\ pc = "exit"
    /\ last.op = "list_assets"
    /\ Len(listing) = 3
    /\ \E i \in 1..3 : listing[i].sort_order = None

-----------------------------------------------------------------------------
(* Cover pointer *)

\* C11: in every reachable state an Album's cover_asset_id, if set, names an
\* Asset whose album_id is that same Album; a write that sets it to an Asset
\* of a different Album is not accepted, so no committed Album points at one.
C11_CoverBelongsToAlbum ==
    \A al \in store.albums :
        al.cover_asset_id # None =>
            \E a \in store.assets :
                /\ Some(a.id) = al.cover_asset_id
                /\ a.album_id = Some(al.id)

=============================================================================
